---- MODULE Spec2Model ----
\* Model of the logharbour Logger (src/unnamed/part_003) and of the
\* FallbackWriter (src/logharbour/types.go): context derivation, the
\* emission pipeline (filter, validation, serialization, write), priority
\* mutation and the primary/fallback failover, run by concurrent threads.
EXTENDS Integers, Sequences, FiniteSets, TLC

\* ------------------------------------------------------------------ bounds
\* Number of operations (derivations, emissions, priority changes, direct
\* FallbackWriter writes) started in one run.
MaxOps == 3

\* Number of Logger instances alive in one run (the root and its clones).
MaxLoggers == 3

\* Number of calls that start while another call is in flight.
MaxOverlap == 1

Threads == {1, 2}

\* ------------------------------------------------------- program constants
Debug2 == 1
Debug1 == 2
Debug0 == 3
Info == 4
Warn == 5
Err == 6
Crit == 7
Sec == 8

DefaultPriority == Info

LogTypeChange == 1
LogTypeActivity == 2
LogTypeDebug == 3

Success == 0
Failure == 1

\* ---------------------------------------------------------- input domains
\* Priorities handed to ChangePriority and WithPriority.
InputPriorities == {Debug2, Err}
\* The one non-empty string handed to the string-valued With* operations.
StrVals == {"x"}
\* Messages of emissions; the Validator of the model rejects BadMessage.
BadMessage == "bad"
Messages == {"msg", BadMessage}
\* Payloads; json.Marshal fails on Unserializable (a channel, a func).
Unserializable == "chan"
DataVals == {"data", Unserializable}
\* The (message, payload) pairs the emission methods are called with.
DebugInputs == Messages \X DataVals
ChangeInputs == {<<"msg", "data">>}
ActivityInputs == {<<"msg", "data">>}
\* The byte slice of a direct FallbackWriter.Write call.
DirectBytes == <<"test", "message">>

\* The numeric values a LogPriority and a LogType are rendered for: the
\* declared ones and one undeclared value on each side of them.
RankInputs == 0 .. (Sec + 1)
KindInputs == 0 .. (LogTypeDebug + 1)
\* The thresholds a Logger filters with.
Thresholds == Debug2 .. Sec

\* The destination sinks: the two branches of the FallbackWriter and one
\* sink that is not a FallbackWriter.
SinkIds == {"primary", "fallback", "plain"}
\* Values of Logger.writer: the FallbackWriter or the plain sink.
Writers == {"fw", "plain"}

NoErr == "nil"
ErrValidation == "ErrValidation"
ErrMarshal == "ErrMarshal"
WriteErr(s) == "Err_" \o s

VARIABLES
    loggers,   \* heap of Logger objects: sequence of Logger records
    origin,    \* per Logger: the With* call that made it and its source then
    fwmu,      \* FallbackWriter.mu: the thread holding it, 0 when free
    sinks,     \* per sink: the sequence of Write calls it received
    th,        \* per thread: the call it is in, its position and locals
    last,      \* the call that returned last, with the values it returned
    acked,     \* emissions that returned nil unsuppressed, in return order
    cpLog,     \* per Logger: its returned ChangePriority calls, the sinks then
    lockLog,   \* the emissions in the order in which log took Logger.mu
    ops,       \* operations started so far
    overlaps,  \* operations started while another was in flight
    calc       \* the inputs and results of the functions applied on their own

vars ==
    <<loggers, origin, fwmu, sinks, th, last, acked, cpLog, lockLog, ops,
      overlaps, calc>>

\* ------------------------------------------------------------ enumerations
\* Mutant of PriorityString: the priority as the integer it is.
PriorityString_rank(lp) == ToString(lp)

\* LogPriority.string
PriorityString(lp) ==
    CASE lp = Debug2 -> "Debug2"
      [] lp = Debug1 -> "Debug1"
      [] lp = Debug0 -> "Debug0"
      [] lp = Info -> "Info"
      [] lp = Warn -> "Warn"
      [] lp = Err -> "Err"
      [] lp = Crit -> "Crit"
      [] lp = Sec -> "Sec"
      [] OTHER -> "Unknown"

\* LogType.string
TypeString(lt) ==
    CASE lt = LogTypeChange -> "Change"
      [] lt = LogTypeActivity -> "Activity"
      [] lt = LogTypeDebug -> "Debug"
      [] OTHER -> "Unknown"

\* Mutant of getSystemName: no name at all when os.Hostname fails.
getSystemName_empty(hostErr) == IF hostErr THEN "" ELSE "host"

\* utils.go getSystemName: the host name, "unknown" when os.Hostname fails.
getSystemName(hostErr) == IF hostErr THEN "unknown" ELSE "host"

\* ------------------------------------------------------------------ Logger
\* NewLogger / NewLoggerWithFallback: the zero value for every field the
\* constructor does not set.
NewLogger(appName, writer, hostErr) ==
    [appName |-> appName, system |-> getSystemName(hostErr), module |-> "",
     priority |-> DefaultPriority, who |-> "", op |-> "", whatClass |-> "",
     whatInstanceId |-> "", status |-> Success, remoteIP |-> "",
     writer |-> writer, validator |-> "validator", mu |-> 0]

\* Mutant of clone: the copy forgets the application name.
clone_noAppName(l) ==
    [appName |-> "", system |-> l.system, module |-> l.module,
     priority |-> l.priority, who |-> l.who, op |-> l.op,
     whatClass |-> l.whatClass, whatInstanceId |-> l.whatInstanceId,
     status |-> l.status, remoteIP |-> l.remoteIP,
     writer |-> l.writer, validator |-> l.validator, mu |-> 0]

\* Mutant of clone: the copy forgets the actor.
clone_noWho(l) ==
    [appName |-> l.appName, system |-> l.system, module |-> l.module,
     priority |-> l.priority, who |-> "", op |-> l.op,
     whatClass |-> l.whatClass, whatInstanceId |-> l.whatInstanceId,
     status |-> l.status, remoteIP |-> l.remoteIP,
     writer |-> l.writer, validator |-> l.validator, mu |-> 0]

\* Logger.clone: copies every field but mu, which is a fresh unlocked mutex.
clone(l) ==
    [appName |-> l.appName, system |-> l.system, module |-> l.module,
     priority |-> l.priority, who |-> l.who, op |-> l.op,
     whatClass |-> l.whatClass, whatInstanceId |-> l.whatInstanceId,
     status |-> l.status, remoteIP |-> l.remoteIP,
     writer |-> l.writer, validator |-> l.validator, mu |-> 0]

WithWho(l, who) == [clone(l) EXCEPT !.who = who]
WithModule(l, module) == [clone(l) EXCEPT !.module = module]
WithOp(l, op) == [clone(l) EXCEPT !.op = op]
WithWhatClass(l, whatClass) == [clone(l) EXCEPT !.whatClass = whatClass]
WithWhatInstanceId(l, id) == [clone(l) EXCEPT !.whatInstanceId = id]
WithStatus(l, status) == [clone(l) EXCEPT !.status = status]
WithPriority(l, priority) == [clone(l) EXCEPT !.priority = priority]
WithRemoteIP(l, remoteIP) == [clone(l) EXCEPT !.remoteIP = remoteIP]

\* The With* operations by the field they set, and the values they are given.
WithFields ==
    {"who", "module", "op", "whatClass", "whatInstanceId", "status",
     "priority", "remoteIP"}

WithValues(f) ==
    CASE f = "status" -> {Failure}
      [] f = "priority" -> InputPriorities
      [] OTHER -> StrVals

With(f, l, v) ==
    CASE f = "who" -> WithWho(l, v)
      [] f = "module" -> WithModule(l, v)
      [] f = "op" -> WithOp(l, v)
      [] f = "whatClass" -> WithWhatClass(l, v)
      [] f = "whatInstanceId" -> WithWhatInstanceId(l, v)
      [] f = "status" -> WithStatus(l, v)
      [] f = "priority" -> WithPriority(l, v)
      [] f = "remoteIP" -> WithRemoteIP(l, v)

\* Mutants of shouldLog: no filter at all; a strict comparison; the
\* comparison the other way round.
shouldLog_always(l, p) == TRUE
shouldLog_strict(l, p) == p > l.priority
shouldLog_inverted(l, p) == p <= l.priority

\* Logger.shouldLog
shouldLog(l, p) == p >= l.priority

\* Mutant of newLogEntry: the entry carries the default priority.
newLogEntry_default(l, message, data, now) ==
    [AppName |-> l.appName, System |-> l.system, Module |-> l.module,
     Type |-> 0, Priority |-> DefaultPriority, Who |-> l.who, Op |-> l.op,
     When |-> now, WhatClass |-> l.whatClass,
     WhatInstanceId |-> l.whatInstanceId, Status |-> l.status,
     RemoteIP |-> l.remoteIP, Message |-> message, Data |-> data]

\* Logger.newLogEntry: the entry carries the Logger's context and, as its
\* priority, the Logger's threshold.
newLogEntry(l, message, data, now) ==
    [AppName |-> l.appName, System |-> l.system, Module |-> l.module,
     Type |-> 0, Priority |-> l.priority, Who |-> l.who, Op |-> l.op,
     When |-> now, WhatClass |-> l.whatClass,
     WhatInstanceId |-> l.whatInstanceId, Status |-> l.status,
     RemoteIP |-> l.remoteIP, Message |-> message, Data |-> data]

\* validator.Struct(entry): nil or an error, decided by the entry alone.
Validate(entry) == IF entry.Message = BadMessage THEN ErrValidation ELSE NoErr

\* json.Marshal(entry): the fields in declaration order, Type and Priority
\* through their MarshalJSON; an error for a payload that has no JSON form.
Marshal(entry) ==
    IF entry.Data = Unserializable
    THEN [err |-> ErrMarshal, bytes |-> <<>>]
    ELSE [err |-> NoErr,
          bytes |-> <<entry.AppName, entry.System, entry.Module,
                      TypeString(entry.Type), PriorityString(entry.Priority),
                      ToString(entry.When), entry.Who, entry.Op,
                      entry.WhatClass, entry.WhatInstanceId,
                      ToString(entry.Status), entry.RemoteIP, entry.Message,
                      entry.Data>>]

\* Mutant of FormatEntry: the error of json.Marshal is not looked at.
FormatEntry_unchecked(entry) ==
    [err |-> NoErr, bytes |-> Append(Marshal(entry).bytes, "\n")]

\* formatAndWriteEntry, up to the Write call: the record and its newline.
FormatEntry(entry) ==
    LET m == Marshal(entry)
    IN  IF m.err # NoErr THEN m ELSE [m EXCEPT !.bytes = Append(m.bytes, "\n")]

\* ------------------------------------------------------------------- sinks
\* The counts a failing Write(p) returns: nothing written, or all but the
\* end. formatAndWriteEntry drops the count (line 175), so for a record
\* one failing count stands for all of them.
ShortCounts(p) == IF p = DirectBytes THEN {0, Len(p) - 1} ELSE {0}

\* The results an underlying io.Writer can return for Write(p): everything
\* written and no error, or a short count and the sink's error.
WriteResults(s, p) ==
    {[n |-> Len(p), err |-> NoErr]}
        \cup {[n |-> k, err |-> WriteErr(s)] : k \in ShortCounts(p)}

\* The call a sink records: who wrote (the emission, 0 for a direct write),
\* the bytes handed over and the result returned.
Call(eid, p, r) == [eid |-> eid, p |-> p, n |-> r.n, err |-> r.err]

\* ----------------------------------------------------------------- threads
NoEntry == newLogEntry(NewLogger("", "plain", FALSE), "", "", 0)

\* A call: the operation, the emission method it came through, its Logger,
\* the emission, its entry as built and the number of ChangePriority calls
\* that had returned on the Logger by then, the threshold the filter read,
\* the entries the Validator was called with, the values returned and the
\* Write calls made by the return.
NoCall ==
    [op |-> "none", via |-> "", lg |-> 0, eid |-> 0, entry |-> NoEntry,
     cps |-> 0, thr |-> 0, seen |-> <<>>, n |-> 0, err |-> NoErr,
     writes |-> 0]

\* A thread outside every call.
Idle ==
    [pc |-> "idle", call |-> NoCall, entry |-> NoEntry, p |-> <<>>,
     sink |-> "", caller |-> "", arg |-> 0, n |-> 0, err |-> NoErr]

\* No function has been applied on its own: no input, no result.
NoCalc ==
    [lp |-> DefaultPriority, lt |-> LogTypeChange, thr |-> DefaultPriority,
     hostErr |-> FALSE, bytes |-> <<>>, admitted |-> <<>>]

\* Mutant of Unlock: the mutex is left locked.
Unlock_forgotten(lg) == loggers

\* The deferred l.mu.Unlock() of log (line 146).
Unlock(lg) == [loggers EXCEPT ![lg].mu = 0]

\* Mutants of Locks: log does not take the lock; With* takes it too.
Locks_notLog(op) == op = "cp"
Locks_alsoWith(op) == TRUE

\* The Logger methods that call l.mu.Lock(): log and ChangePriority do,
\* clone and the With* methods do not.
Locks(op) == op \in {"log", "cp"}

\* Mutant of CanEnter: the Loggers share one mutex.
CanEnter_shared(op, l) ==
    Locks(op) => \A i \in DOMAIN loggers : loggers[i].mu = 0

\* A thread can go on into method op of Logger l: sync.Mutex.Lock returns
\* once the mutex is free.
CanEnter(op, l) == Locks(op) => l.mu = 0

\* Mutant of FwMuFree: Write does not wait for the mutex.
FwMuFree_nolock(holder) == TRUE

\* FallbackWriter.Write, line 337: fw.mu.Lock() returns once nobody holds it.
FwMuFree(holder) == holder = 0

\* The root Logger comes from NewLogger, not from a With*.
NoOrigin ==
    [src |-> 0, field |-> "", value |-> "", at |-> 0,
     snap |-> NewLogger("", "plain", FALSE)]

Init ==
    /\ \E w \in Writers : loggers = <<NewLogger("app", w, FALSE)>>
    /\ origin = <<NoOrigin>>
    /\ fwmu = 0
    /\ sinks = [s \in SinkIds |-> <<>>]
    /\ th = [t \in Threads |-> Idle]
    /\ last = NoCall
    /\ acked = <<>>
    /\ cpLog = <<(<<>>)>>
    /\ lockLog = <<>>
    /\ ops = 0
    /\ overlaps = 0
    /\ calc = NoCalc

\* Threads are interchangeable: a new call is made by the lowest-numbered
\* thread that is outside every call.
CanStart(t) ==
    /\ th[t].pc = "idle"
    /\ \A u \in Threads : u < t => th[u].pc # "idle"
    /\ ops < MaxOps
    /\ (\E u \in Threads : th[u].pc # "idle") => overlaps < MaxOverlap

\* The counters of started operations once thread t has started one.
Started(t) ==
    /\ ops' = ops + 1
    /\ overlaps' = IF \E u \in Threads : th[u].pc # "idle"
                   THEN overlaps + 1 ELSE overlaps

\* ---------------------------------------------------------------- actions
\* Mutant of Derived: the With* sets the field on its receiver too.
Derived_inplace(heap, src, f, v) ==
    Append([heap EXCEPT ![src] = [With(f, heap[src], v) EXCEPT !.mu = heap[src].mu]],
           With(f, heap[src], v))

\* The heap after heap[src].With*(v): the source as it was and one new
\* Logger, the clone with one field set.
Derived(heap, src, f, v) == Append(heap, With(f, heap[src], v))

\* newLogger := l.With*(v), by any of the eight With* methods.
DeriveFrom(t, src, fields) ==
    /\ CanStart(t)
    /\ Len(loggers) < MaxLoggers
    /\ CanEnter("with", loggers[src])
    /\ \E f \in fields :
         \E v \in WithValues(f) :
            /\ loggers' = Derived(loggers, src, f, v)
            /\ origin' = Append(origin,
                             [src |-> src, field |-> f, value |-> v,
                              at |-> ops + 1, snap |-> loggers[src]])
    /\ last' = [NoCall EXCEPT !.op = "with", !.lg = Len(loggers) + 1]
    /\ cpLog' = Append(cpLog, <<>>)
    /\ Started(t)
    /\ UNCHANGED <<fwmu, sinks, th, acked, lockLog, calc>>

Derive(t) == \E src \in DOMAIN loggers : DeriveFrom(t, src, WithFields)

\* Mutant of KindOf: every entry is tagged as a debug entry.
KindOf_debug(method) == LogTypeDebug

\* The kind each emission method assigns to entry.Type (lines 201, 208,
\* 219).
KindOf(method) ==
    CASE method = "LogDataChange" -> LogTypeChange
      [] method = "LogActivity" -> LogTypeActivity
      [] method = "LogDebug" -> LogTypeDebug

\* The part LogDataChange, LogActivity and LogDebug share: build the entry
\* from the Logger (no lock held), tag its kind, call log.
Emit(t, method, inputs) ==
    /\ CanStart(t)
    /\ \E lg \in DOMAIN loggers, in \in inputs :
         LET entry == [newLogEntry(loggers[lg], in[1], in[2], ops + 1)
                          EXCEPT !.Type = KindOf(method)]
         IN  th' = [th EXCEPT ![t] =
                      [Idle EXCEPT !.pc = "log", !.entry = entry,
                                   !.call = [NoCall EXCEPT !.op = "log",
                                                           !.via = method,
                                                           !.lg = lg,
                                                           !.eid = ops + 1,
                                                           !.entry = entry,
                                                           !.cps =
                                                             Len(cpLog[lg])]]]
    /\ Started(t)
    /\ UNCHANGED <<loggers, origin, fwmu, sinks, last, acked, cpLog, lockLog, calc>>

LogDataChange(t) == Emit(t, "LogDataChange", ChangeInputs)
LogActivity(t) == Emit(t, "LogActivity", ActivityInputs)
LogDebug(t) == Emit(t, "LogDebug", DebugInputs)

\* The Write calls the sinks in ss hold for emission e.
WritesFor(e, ss) ==
    Cardinality({<<s, i>> \in UNION {{s} \X DOMAIN ss[s] : s \in SinkIds} :
                    ss[s][i].eid = e})

\* Mutant of LogReturn: log unlocks before its successful return only, and
\* an error return leaves the mutex locked.
LogReturn_noDefer(t, call, err, held) ==
    /\ th' = [th EXCEPT ![t] = Idle]
    /\ last' = [call EXCEPT !.err = err, !.writes = WritesFor(call.eid, sinks')]
    /\ loggers' = IF err # NoErr THEN [loggers EXCEPT ![call.lg].mu = t]
                  ELSE IF held THEN Unlock(call.lg) ELSE loggers
    /\ acked' = IF err = NoErr /\ call.seen # <<>>
                THEN Append(acked, call.eid) ELSE acked

\* log returns err: the deferred Unlock runs and the caller has the error.
LogReturn(t, call, err, held) ==
    /\ th' = [th EXCEPT ![t] = Idle]
    /\ last' = [call EXCEPT !.err = err, !.writes = WritesFor(call.eid, sinks')]
    /\ loggers' = IF held THEN Unlock(call.lg) ELSE loggers
    /\ acked' = IF err = NoErr /\ call.seen # <<>>
                THEN Append(acked, call.eid) ELSE acked

\* Mutants of WriterFor: a rejected entry goes through the FallbackWriter
\* itself; a rejected entry is never written; validation is ignored.
WriterFor_primary(l, verr) ==
    IF verr = NoErr THEN l.writer
    ELSE IF l.writer = "fw" THEN "fw" ELSE "none"
WriterFor_propagate(l, verr) == IF verr = NoErr THEN l.writer ELSE "none"
WriterFor_ignore(l, verr) == l.writer

\* Logger.log, lines 152-160: the writer formatAndWriteEntry is given for
\* an entry the Validator answered verr for: the fallback branch of a
\* FallbackWriter for a rejected entry, none when the error is returned.
WriterFor(l, verr) ==
    IF verr = NoErr THEN l.writer
    ELSE IF l.writer = "fw" THEN "fallback" ELSE "none"

\* Mutant of ValidatorCalls: the Validator is called before the filter.
ValidatorCalls_unfiltered(admitted, entry) == <<entry>>

\* Logger.log, lines 149-152: the calls of validator.Struct log makes for
\* an entry: one, with the entry, once the filter has admitted it.
ValidatorCalls(admitted, entry) == IF admitted THEN <<entry>> ELSE <<>>

\* Mutant of EntryToWrite: the entry gets a new timestamp after validation.
EntryToWrite_restamped(entry) == [entry EXCEPT !.When = @ + 1]

\* Logger.log, lines 152-160: the entry handed to formatAndWriteEntry is
\* the variable validator.Struct was called with; no statement in between
\* assigns to it.
EntryToWrite(entry) == entry

\* Logger.log, lines 145-160, up to the Write call of formatAndWriteEntry:
\* take the lock, restamp the application name, filter, validate, choose
\* the writer, serialize. Every early return runs the deferred Unlock.
Log(t) ==
    /\ th[t].pc = "log"
    /\ CanEnter("log", loggers[th[t].call.lg])
    /\ lockLog' = Append(lockLog, [lg |-> th[t].call.lg, eid |-> th[t].call.eid])
    /\ UNCHANGED <<origin, fwmu, sinks, cpLog, ops, overlaps, calc>>
    /\ LET l == loggers[th[t].call.lg]
           entry == [th[t].entry EXCEPT !.AppName = l.appName]
           filtered == [th[t].call EXCEPT
                          !.thr = l.priority,
                          !.seen = ValidatorCalls(FALSE, entry)]
           validated == [filtered EXCEPT !.seen = ValidatorCalls(TRUE, entry)]
           verr == Validate(entry)
           writer == WriterFor(l, verr)
           m == FormatEntry(EntryToWrite(entry))
       IN  IF ~shouldLog(l, entry.Priority)
           THEN LogReturn(t, filtered, NoErr, FALSE)
           ELSE IF writer = "none"
           THEN LogReturn(t, validated, verr, FALSE)
           ELSE IF m.err # NoErr
           THEN LogReturn(t, validated, m.err, FALSE)
           ELSE /\ th' = [th EXCEPT
                            ![t].pc = IF writer = "fw" THEN "fw_lock"
                                      ELSE "write",
                            ![t].entry = EntryToWrite(entry),
                            ![t].sink = writer,
                            ![t].p = m.bytes, ![t].caller = "log",
                            ![t].call = validated]
                /\ loggers' = [loggers EXCEPT ![th[t].call.lg].mu = t]
                /\ UNCHANGED <<last, acked>>

\* Mutant of WriteOutcome: the write error is dropped.
WriteOutcome_swallowed(r) == NoErr

\* formatAndWriteEntry, lines 175-176: _, writeErr := writer.Write(...);
\* return writeErr. The count is dropped, the error returned as it is.
WriteOutcome(r) == r.err

\* Mutant of SinkWrite: log returns nil with the record in a buffer, and
\* the Write is made afterwards.
SinkWrite_deferred(t) ==
    /\ UNCHANGED <<origin, fwmu, cpLog, lockLog, ops, overlaps, calc>>
    /\ \/ /\ th[t].pc = "write"
          /\ th' = [th EXCEPT ![t].pc = "flush"]
          /\ last' = [th[t].call EXCEPT
                        !.err = NoErr,
                        !.writes = WritesFor(th[t].call.eid, sinks)]
          /\ loggers' = Unlock(th[t].call.lg)
          /\ acked' = Append(acked, th[t].call.eid)
          /\ UNCHANGED sinks
       \/ /\ th[t].pc = "flush"
          /\ sinks' = [sinks EXCEPT ![th[t].sink] =
                          Append(@, Call(th[t].call.eid, th[t].p,
                                         [n |-> Len(th[t].p), err |-> NoErr]))]
          /\ th' = [th EXCEPT ![t] = Idle]
          /\ UNCHANGED <<last, loggers, acked>>

\* The Write of a sink that is not a FallbackWriter returns to
\* formatAndWriteEntry (lines 175-176), which returns its error; log
\* returns and unlocks.
SinkWrite(t) ==
    /\ th[t].pc = "write"
    /\ \E r \in WriteResults(th[t].sink, th[t].p) :
         /\ sinks' = [sinks EXCEPT ![th[t].sink] =
                         Append(@, Call(th[t].call.eid, th[t].p, r))]
         /\ LogReturn(t, th[t].call, WriteOutcome(r), TRUE)
    /\ UNCHANGED <<origin, fwmu, cpLog, lockLog, ops, overlaps, calc>>

\* A thread calls FallbackWriter.Write itself (the standalone use).
FwCall(t) ==
    /\ CanStart(t)
    /\ th' = [th EXCEPT ![t] =
                [Idle EXCEPT !.pc = "fw_lock", !.p = DirectBytes,
                             !.caller = "direct",
                             !.call = [NoCall EXCEPT !.op = "fwwrite",
                                                     !.eid = ops + 1]]]
    /\ Started(t)
    /\ UNCHANGED <<loggers, origin, fwmu, sinks, last, acked, cpLog, lockLog, calc>>

\* Mutant of FirstBranch: once the primary has failed, Write goes to the
\* fallback at once.
FirstBranch_sticky(ss) ==
    IF \E i \in DOMAIN ss.primary : ss.primary[i].err # NoErr
    THEN "fallback" ELSE "primary"

\* FallbackWriter.Write, line 339: the branch written first. The struct
\* (lines 320-324) has no field that records an earlier failure, so it is
\* the primary whatever the sinks ss have received.
FirstBranch(ss) == "primary"

\* FallbackWriter.Write, line 337: fw.mu.Lock(), then call primary.Write.
FwLock(t) ==
    /\ th[t].pc = "fw_lock"
    /\ FwMuFree(fwmu)
    /\ fwmu' = t
    /\ th' = [th EXCEPT ![t].pc = IF FirstBranch(sinks) = "primary"
                                  THEN "fw_primary" ELSE "fw_fallback"]
    /\ UNCHANGED <<loggers, origin, sinks, last, acked, cpLog, lockLog, ops,
                   overlaps, calc>>

\* FallbackWriter.Write returns (n, err) and unlocks: formatAndWriteEntry
\* drops n and log returns err; a direct caller has both.
FwReturn(t, r) ==
    /\ fwmu' = 0
    /\ IF th[t].caller = "log"
       THEN LogReturn(t, th[t].call, WriteOutcome(r), TRUE)
       ELSE /\ th' = [th EXCEPT ![t] = Idle]
            /\ last' = [th[t].call EXCEPT
                          !.n = r.n, !.err = r.err,
                          !.writes = WritesFor(th[t].call.eid, sinks')]
            /\ UNCHANGED <<acked, loggers>>

\* Mutant of FwTriesFallback: the fallback is written after every primary
\* write.
FwTriesFallback_always(r) == TRUE

\* FallbackWriter.Write, line 340: the fallback is tried when the primary
\* returned an error.
FwTriesFallback(r) == r.err # NoErr

\* FallbackWriter.Write, lines 339-341: primary.Write returns.
FwPrimary(t) ==
    /\ th[t].pc = "fw_primary"
    /\ \E r \in WriteResults("primary", th[t].p) :
         /\ sinks' = [sinks EXCEPT !.primary =
                         Append(@, Call(th[t].call.eid, th[t].p, r))]
         /\ IF FwTriesFallback(r)
            THEN /\ th' = [th EXCEPT ![t].pc = "fw_fallback",
                                     ![t].n = r.n, ![t].err = r.err]
                 /\ UNCHANGED <<fwmu, last, acked, loggers>>
            ELSE FwReturn(t, r)
    /\ UNCHANGED <<origin, cpLog, lockLog, ops, overlaps, calc>>

\* Mutants of FwResult: the primary's count with the fallback's error;
\* the primary's result; the fallback's count and no error.
FwResult_count(rp, rf) == [n |-> rp.n, err |-> rf.err]
FwResult_primary(rp, rf) == rp
FwResult_lost(rp, rf) == [n |-> rf.n, err |-> NoErr]

\* FallbackWriter.Write, lines 342-344: n, err = fw.fallback.Write(p)
\* overwrites the primary's result rp with the fallback's rf.
FwResult(rp, rf) == rf

\* FallbackWriter.Write, lines 342-344: fallback.Write returns.
FwFallback(t) ==
    /\ th[t].pc = "fw_fallback"
    /\ \E r \in WriteResults("fallback", th[t].p) :
         /\ sinks' = [sinks EXCEPT !.fallback =
                         Append(@, Call(th[t].call.eid, th[t].p, r))]
         /\ FwReturn(t, FwResult([n |-> th[t].n, err |-> th[t].err], r))
    /\ UNCHANGED <<origin, cpLog, lockLog, ops, overlaps, calc>>

\* Logger.ChangePriority, line 225: take the lock.
ChangePriorityLock(t) ==
    /\ CanStart(t)
    /\ \E lg \in DOMAIN loggers, p \in InputPriorities :
         /\ CanEnter("cp", loggers[lg])
         /\ loggers' = [loggers EXCEPT ![lg].mu = t]
         /\ th' = [th EXCEPT ![t] =
                     [Idle EXCEPT !.pc = "cp", !.arg = p,
                                  !.call = [NoCall EXCEPT !.op = "cp",
                                                          !.lg = lg,
                                                          !.eid = ops + 1]]]
    /\ Started(t)
    /\ UNCHANGED <<origin, fwmu, sinks, last, acked, cpLog, lockLog, calc>>

\* Logger.ChangePriority is called: the thread is at l.mu.Lock() (line 225)
\* and has not got the mutex yet.
ChangePriorityCall(t) ==
    /\ CanStart(t)
    /\ \E lg \in DOMAIN loggers, p \in InputPriorities :
         th' = [th EXCEPT ![t] =
                  [Idle EXCEPT !.pc = "cp_lock", !.arg = p,
                               !.call = [NoCall EXCEPT !.op = "cp",
                                                       !.lg = lg,
                                                       !.eid = ops + 1]]]
    /\ Started(t)
    /\ UNCHANGED <<loggers, origin, fwmu, sinks, last, acked, cpLog, lockLog, calc>>

\* Logger.ChangePriority, line 225: l.mu.Lock() returns.
ChangePriorityAcquire(t) ==
    /\ th[t].pc = "cp_lock"
    /\ CanEnter("cp", loggers[th[t].call.lg])
    /\ loggers' = [loggers EXCEPT ![th[t].call.lg].mu = t]
    /\ th' = [th EXCEPT ![t].pc = "cp"]
    /\ UNCHANGED <<origin, fwmu, sinks, last, acked, cpLog, lockLog, ops,
                   overlaps, calc>>

\* Mutant of ChangePriority: the threshold is not set.
ChangePriority_noop(l, newPriority) == l

\* Logger.ChangePriority, line 227: the Logger after l.priority = newPriority.
ChangePriority(l, newPriority) == [l EXCEPT !.priority = newPriority]

\* Mutant of SetPriority: the clones of a Logger share its threshold.
SetPriority_shared(heap, lg, p) ==
    [i \in DOMAIN heap |-> ChangePriority(heap[i], p)]

\* The heap after heap[lg].ChangePriority(p): the receiver alone is changed.
SetPriority(heap, lg, p) == [heap EXCEPT ![lg] = ChangePriority(@, p)]

\* Logger.ChangePriority, lines 226-228: set the threshold, unlock, return.
ChangePrioritySet(t) ==
    /\ th[t].pc = "cp"
    /\ LET lg == th[t].call.lg
       IN  /\ loggers' = [SetPriority(loggers, lg, th[t].arg)
                            EXCEPT ![lg].mu = 0]
           /\ cpLog' = [cpLog EXCEPT
                          ![lg] = Append(@, [p |-> th[t].arg, sinks |-> sinks])]
    /\ th' = [th EXCEPT ![t] = Idle]
    /\ last' = th[t].call
    /\ UNCHANGED <<origin, fwmu, sinks, acked, lockLog, ops, overlaps, calc>>

Step(t) ==
    \/ Derive(t)
    \/ LogDataChange(t)
    \/ LogActivity(t)
    \/ LogDebug(t)
    \/ Log(t)
    \/ SinkWrite(t)
    \/ FwCall(t)
    \/ FwLock(t)
    \/ FwPrimary(t)
    \/ FwFallback(t)
    \/ ChangePriorityLock(t)
    \/ ChangePrioritySet(t)

Next == \E t \in Threads : Step(t)

Spec == Init /\ [][Next]_vars

\* The emission pipeline and the priority mutation of the Loggers, without
\* derivation and without direct use of the FallbackWriter.
StepPipe(t) ==
    \/ LogDataChange(t)
    \/ LogActivity(t)
    \/ LogDebug(t)
    \/ Log(t)
    \/ SinkWrite(t)
    \/ FwLock(t)
    \/ FwPrimary(t)
    \/ FwFallback(t)
    \/ ChangePriorityLock(t)
    \/ ChangePrioritySet(t)

NextPipe == \E t \in Threads : StepPipe(t)

SpecPipe == Init /\ [][NextPipe]_vars

\* The FallbackWriter on its own, written to by concurrent callers.
StepFw(t) ==
    \/ FwCall(t)
    \/ FwLock(t)
    \/ FwPrimary(t)
    \/ FwFallback(t)

NextFw == \E t \in Threads : StepFw(t)

SpecFw == Init /\ [][NextFw]_vars

\* Derivation and the emission of change and activity records, without
\* priority mutation.
StepWith(t) ==
    \/ Derive(t)
    \/ LogDataChange(t)
    \/ LogActivity(t)
    \/ Log(t)
    \/ SinkWrite(t)
    \/ FwLock(t)
    \/ FwPrimary(t)
    \/ FwFallback(t)

NextWith == StepWith(1)

SpecWith == Init /\ [][NextWith]_vars

\* l.WithWho(v) and l.WithPriority(v), the derivations of a text field and
\* of the threshold.
DeriveWhoOrPriority(t) ==
    \E src \in DOMAIN loggers : DeriveFrom(t, src, {"who", "priority"})

\* A Logger and its clones, sharing one writer, used by concurrent threads:
\* derivation, emission of activity records and priority mutation.
StepClones(t) ==
    \/ DeriveWhoOrPriority(t)
    \/ LogActivity(t)
    \/ Log(t)
    \/ SinkWrite(t)
    \/ FwLock(t)
    \/ FwPrimary(t)
    \/ FwFallback(t)
    \/ ChangePriorityLock(t)
    \/ ChangePrioritySet(t)

NextClones == \E t \in Threads : StepClones(t)

SpecClones == Init /\ [][NextClones]_vars

\* The same with debug records, which the Validator may reject.
StepTree(t) ==
    \/ DeriveWhoOrPriority(t)
    \/ LogActivity(t)
    \/ LogDebug(t)
    \/ Log(t)
    \/ SinkWrite(t)
    \/ FwLock(t)
    \/ FwPrimary(t)
    \/ FwFallback(t)
    \/ ChangePriorityLock(t)
    \/ ChangePrioritySet(t)

NextTree == \E t \in Threads : StepTree(t)

SpecTree == Init /\ [][NextTree]_vars

\* A sequential run of emissions and priority changes: one thread makes
\* every call.
NextSeq == StepPipe(1)

SpecSeq == Init /\ [][NextSeq]_vars

\* Debug records, which the Validator may reject and json.Marshal may
\* refuse, emitted through one Logger while its threshold is changed.
StepDebug(t) ==
    \/ LogDebug(t)
    \/ Log(t)
    \/ SinkWrite(t)
    \/ FwLock(t)
    \/ FwPrimary(t)
    \/ FwFallback(t)
    \/ ChangePriorityLock(t)
    \/ ChangePrioritySet(t)

NextDebug == \E t \in Threads : StepDebug(t)

SpecDebug == Init /\ [][NextDebug]_vars

\* The three emission methods used through a Logger and its clones by one
\* thread, with priority mutation.
StepKinds(t) ==
    \/ DeriveWhoOrPriority(t)
    \/ LogDataChange(t)
    \/ LogActivity(t)
    \/ LogDebug(t)
    \/ Log(t)
    \/ SinkWrite(t)
    \/ FwLock(t)
    \/ FwPrimary(t)
    \/ FwFallback(t)
    \/ ChangePriorityLock(t)
    \/ ChangePrioritySet(t)

NextKinds == StepKinds(1)

SpecKinds == Init /\ [][NextKinds]_vars

\* l.WithWho(v).
DeriveWho(t) == \E src \in DOMAIN loggers : DeriveFrom(t, src, {"who"})

\* A Logger and its clones used by concurrent threads, every call that
\* waits for a mutex shown waiting, under a fair scheduler: a thread that
\* can take its next step inside a call takes it.
StepLive(t) ==
    \/ DeriveWho(t)
    \/ LogActivity(t)
    \/ Log(t)
    \/ SinkWrite(t)
    \/ FwLock(t)
    \/ FwPrimary(t)
    \/ FwFallback(t)
    \/ ChangePriorityCall(t)
    \/ ChangePriorityAcquire(t)
    \/ ChangePrioritySet(t)

NextLive == \E t \in Threads : StepLive(t)

\* The steps that go on inside a call thread t has made.
Continue(t) ==
    \/ Log(t)
    \/ SinkWrite(t)
    \/ FwLock(t)
    \/ FwPrimary(t)
    \/ FwFallback(t)
    \/ ChangePriorityAcquire(t)
    \/ ChangePrioritySet(t)

SpecLive ==
    Init /\ [][NextLive]_vars /\ \A t \in Threads : WF_vars(Continue(t))

\* --------------------------------------------- the functions on their own
\* Before any Logger is made: a priority, a kind, a threshold and the
\* outcome of os.Hostname are given.
InitCalc ==
    /\ loggers = <<>>
    /\ origin = <<>>
    /\ fwmu = 0
    /\ sinks = [s \in SinkIds |-> <<>>]
    /\ th = [t \in Threads |-> Idle]
    /\ last = NoCall
    /\ acked = <<>>
    /\ cpLog = <<>>
    /\ lockLog = <<>>
    /\ ops = 0
    /\ overlaps = 0
    /\ \E lp \in RankInputs, lt \in KindInputs, thr \in Thresholds,
          hostErr \in BOOLEAN :
         calc = [NoCalc EXCEPT !.lp = lp, !.lt = lt, !.thr = thr,
                               !.hostErr = hostErr]

\* NewLogger(appName, writer) or NewLoggerWithFallback(appName, fw).
Construct ==
    /\ loggers = <<>>
    /\ \E w \in Writers : loggers' = <<NewLogger("app", w, calc.hostErr)>>
    /\ origin' = <<NoOrigin>>
    /\ cpLog' = <<(<<>>)>>
    /\ UNCHANGED <<fwmu, sinks, th, last, acked, lockLog, ops, overlaps, calc>>

\* json.Marshal of an entry of kind calc.lt and priority calc.lp.
MarshalEntry ==
    /\ calc.bytes = <<>>
    /\ calc' = [calc EXCEPT
                  !.bytes = Marshal([NoEntry EXCEPT !.Type = calc.lt,
                                                    !.Priority = calc.lp]).bytes]
    /\ UNCHANGED <<loggers, origin, fwmu, sinks, th, last, acked, cpLog,
                   lockLog, ops, overlaps>>

\* l.shouldLog(calc.lp) on a Logger whose threshold is calc.thr.
ShouldLog ==
    /\ calc.admitted = <<>>
    /\ calc' = [calc EXCEPT
                  !.admitted =
                      <<shouldLog(ChangePriority(NewLogger("app", "plain", FALSE),
                                                 calc.thr),
                                  calc.lp)>>]
    /\ UNCHANGED <<loggers, origin, fwmu, sinks, th, last, acked, cpLog,
                   lockLog, ops, overlaps>>

NextCalc ==
    \/ Construct
    \/ MarshalEntry
    \/ ShouldLog

SpecCalc == InitCalc /\ [][NextCalc]_vars

\* ------------------------------------------------------------ properties
\* The Write calls sink s received for emission (or direct write) e.
CallsOf(e, s) == {i \in DOMAIN sinks[s] : sinks[s][i].eid = e}

\* Emission e has a write that returned no error; has one that returned one.
Written(e) ==
    \E s \in SinkIds : \E i \in CallsOf(e, s) : sinks[s][i].err = NoErr
FailedWrite(e) ==
    \E s \in SinkIds : \E i \in CallsOf(e, s) : sinks[s][i].err # NoErr

\* The call c is an emission the Validator was called for and rejected.
Rejected(c) ==
    c.op = "log" /\ c.seen # <<>> /\ Validate(c.seen[1]) # NoErr

\* The call c is an emission whose priority was below the threshold the
\* filter compared it with.
BelowThreshold(c) == c.op = "log" /\ c.thr > 0 /\ c.entry.Priority < c.thr

OnFailover(c) == loggers[c.lg].writer = "fw"

IsPrefix(a, b) == Len(a) <= Len(b) /\ SubSeq(b, 1, Len(a)) = a

\* The context of a Logger an entry carries, by the Logger's field names.
ContextOf(entry) ==
    [appName |-> entry.AppName, system |-> entry.System,
     module |-> entry.Module, priority |-> entry.Priority,
     who |-> entry.Who, op |-> entry.Op, whatClass |-> entry.WhatClass,
     whatInstanceId |-> entry.WhatInstanceId, status |-> entry.Status,
     remoteIP |-> entry.RemoteIP]

\* The same fields as a serialized record carries them.
ContextOfRecord(p) ==
    [appName |-> p[1], system |-> p[2], module |-> p[3], priority |-> p[5],
     who |-> p[7], op |-> p[8], whatClass |-> p[9], whatInstanceId |-> p[10],
     status |-> p[11], remoteIP |-> p[12]]

\* The serialized form of the value v of the Logger field f.
Rendered(f, v) ==
    CASE f = "priority" -> PriorityString(v)
      [] f = "status" -> ToString(v)
      [] OTHER -> v

\* Logger lg had its threshold set by ChangePriority.
Mutated(lg) == cpLog[lg] # <<>>

\* C1: an entry whose priority is below the threshold of the Logger it is
\* emitted through is dropped: log returns nil, the Validator is not called
\* and no sink, primary, fallback or other, gets a Write call for it.
C1_SuppressedUntouched ==
    BelowThreshold(last) =>
        /\ last.err = NoErr
        /\ last.seen = <<>>
        /\ \A s \in SinkIds : CallsOf(last.eid, s) = {}

\* An emission built at one threshold met a higher one at the filter.
C1_Witness ==
    /\ BelowThreshold(last)
    /\ last.entry.Priority = Info
    /\ last.thr = Err

\* C2 (as amended): a rejected entry on a Logger whose writer is the
\* FallbackWriter never reaches the primary branch, and when it serializes
\* the fallback branch gets exactly one Write call, with the entry's
\* newline-terminated record; when it does not, no branch is written.
C2_RejectedGoesToFallback ==
    (Rejected(last) /\ OnFailover(last)) =>
        LET m == FormatEntry(last.seen[1])
            fb == CallsOf(last.eid, "fallback")
        IN  /\ CallsOf(last.eid, "primary") = {}
            /\ CallsOf(last.eid, "plain") = {}
            /\ IF m.err = NoErr
               THEN /\ Cardinality(fb) = 1
                    /\ \A i \in fb :
                         /\ sinks.fallback[i].p = m.bytes
                         /\ m.bytes[Len(m.bytes)] = "\n"
               ELSE fb = {}

\* A rejected entry of a FallbackWriter-backed Logger is in the fallback.
C2_Witness ==
    /\ Rejected(last)
    /\ OnFailover(last)
    /\ \E i \in CallsOf(last.eid, "fallback") : sinks.fallback[i].err = NoErr

\* C2 as stated: the fallback branch receives the record of every rejected
\* entry of a FallbackWriter-backed Logger.
C2_Original ==
    (Rejected(last) /\ OnFailover(last)) =>
        /\ CallsOf(last.eid, "primary") = {}
        /\ CallsOf(last.eid, "fallback") # {}

\* C3 (as amended): for a rejected entry on a FallbackWriter-backed Logger
\* log never returns the Validator's error; it returns nil exactly when the
\* fallback branch accepted the record, and otherwise the serialization
\* error or the fallback's write error.
C3_RejectedReturnsFallbackResult ==
    (Rejected(last) /\ OnFailover(last)) =>
        /\ last.err # ErrValidation
        /\ (last.err = NoErr) <=> Written(last.eid)
        /\ (last.err # NoErr) =>
             \/ /\ last.err = ErrMarshal
                /\ FormatEntry(last.seen[1]).err = ErrMarshal
             \/ /\ last.err = WriteErr("fallback")
                /\ \E i \in CallsOf(last.eid, "fallback") :
                      sinks.fallback[i].err = last.err

\* The fallback refused a rejected entry and log returned its error.
C3_Witness ==
    /\ Rejected(last)
    /\ OnFailover(last)
    /\ last.err = WriteErr("fallback")

\* C3 as stated: success whatever the fallback branch does.
C3_Original == (Rejected(last) /\ OnFailover(last)) => last.err = NoErr

\* C4: a rejected entry on a Logger whose writer is not a FallbackWriter
\* makes log return the Validator's error, and no sink gets a Write call.
C4_RejectedPropagates ==
    (Rejected(last) /\ ~OnFailover(last)) =>
        /\ last.err = ErrValidation
        /\ \A s \in SinkIds : CallsOf(last.eid, s) = {}

C4_Witness == Rejected(last) /\ ~OnFailover(last) /\ sinks.plain # <<>>

\* C5: a direct Write whose primary fails and whose fallback succeeds
\* returns the fallback's count and nil, and the fallback got one call,
\* with the whole slice.
C5_FallbackTakesOver ==
    LET pr == CallsOf(last.eid, "primary")
        fb == CallsOf(last.eid, "fallback")
    IN  (/\ last.op = "fwwrite"
         /\ \E i \in pr : sinks.primary[i].err # NoErr
         /\ \E j \in fb : sinks.fallback[j].err = NoErr)
        => /\ last.err = NoErr
           /\ Cardinality(fb) = 1
           /\ \A j \in fb :
                /\ last.n = sinks.fallback[j].n
                /\ sinks.fallback[j].n = Len(DirectBytes)
                /\ sinks.fallback[j].p = DirectBytes

\* The primary took a part of the slice and failed; the fallback took all.
C5_Witness ==
    /\ last.op = "fwwrite"
    /\ last.err = NoErr
    /\ \E i \in CallsOf(last.eid, "primary") :
          sinks.primary[i].err # NoErr /\ sinks.primary[i].n > 0
    /\ \E j \in CallsOf(last.eid, "fallback") : sinks.fallback[j].err = NoErr

\* C6: a direct Write whose primary and fallback both fail returns the
\* fallback's count and error, and each branch got exactly one call; no
\* other sink got any.
C6_BothFail ==
    LET pr == CallsOf(last.eid, "primary")
        fb == CallsOf(last.eid, "fallback")
    IN  (/\ last.op = "fwwrite"
         /\ \E i \in pr : sinks.primary[i].err # NoErr
         /\ \E j \in fb : sinks.fallback[j].err # NoErr)
        => /\ Cardinality(pr) = 1
           /\ Cardinality(fb) = 1
           /\ CallsOf(last.eid, "plain") = {}
           /\ \A j \in fb :
                /\ last.n = sinks.fallback[j].n
                /\ last.err = sinks.fallback[j].err
           /\ \A i \in pr : last.err # sinks.primary[i].err

\* Both branches failed, with different counts.
C6_Witness ==
    /\ last.op = "fwwrite"
    /\ \E i \in CallsOf(last.eid, "primary") :
         \E j \in CallsOf(last.eid, "fallback") :
            /\ sinks.primary[i].err # NoErr
            /\ sinks.fallback[j].err # NoErr
            /\ sinks.primary[i].n # sinks.fallback[j].n

\* C7: a derivation leaves its source as it was and gives the new Logger
\* the value asked for, and every record emitted through the source after
\* the derivation carries the source's own value of that field.
C7_DerivationNonDestructive ==
    \A id \in DOMAIN loggers :
        origin[id].src # 0 =>
            LET o == origin[id]
                f == o.field
            IN  /\ \/ (f = "priority" /\ Mutated(id))
                   \/ loggers[id][f] = o.value
                /\ \/ (f = "priority" /\ Mutated(o.src))
                   \/ loggers[o.src][f] = o.snap[f]
                /\ (last.op = "log" /\ last.lg = o.src /\ last.eid > o.at)
                     => /\ ContextOf(last.entry)[f] = o.snap[f]
                        /\ \A s \in SinkIds : \A i \in CallsOf(last.eid, s) :
                              ContextOfRecord(sinks[s][i].p)[f]
                                  = Rendered(f, o.snap[f])

\* A record was written through a Logger after a clone of it was given
\* another value.
C7_Witness ==
    \E id \in DOMAIN loggers :
        /\ origin[id].src # 0
        /\ origin[id].value # origin[id].snap[origin[id].field]
        /\ last.op = "log"
        /\ last.lg = origin[id].src
        /\ last.eid > origin[id].at
        /\ Written(last.eid)

\* The fields clone copies.
CopiedFields ==
    {"appName", "system", "module", "priority", "who", "op", "whatClass",
     "whatInstanceId", "status", "remoteIP", "writer", "validator"}

\* C8: a derived Logger is another Logger than its source, and but for the
\* one field its With* names, its context, its writer and its Validator are
\* the source's at the derivation.
C8_OneFieldChanged ==
    \A id \in DOMAIN loggers :
        origin[id].src # 0 =>
            /\ origin[id].src \in DOMAIN loggers
            /\ origin[id].src # id
            /\ \A f \in CopiedFields \ {origin[id].field} :
                 \/ (f = "priority" /\ Mutated(id))
                 \/ loggers[id][f] = origin[id].snap[f]

\* A Logger derived from a derived Logger, by another With*.
C8_Witness ==
    \E id \in DOMAIN loggers :
        /\ origin[id].src # 0
        /\ origin[origin[id].src].src # 0
        /\ origin[id].field # origin[origin[id].src].field

\* The positions of a thread between the filter of log and its return.
InPipeline == {"write", "fw_lock", "fw_primary", "fw_fallback"}

\* C9: an emission on a Logger is filtered against the priority of the
\* last ChangePriority that returned on it, and what the sinks held when a
\* ChangePriority returned they still hold.
C9_FilterFollowsChangePriority ==
    /\ (last.op = "log" /\ Mutated(last.lg)) =>
         /\ last.thr = cpLog[last.lg][Len(cpLog[last.lg])].p
         /\ (last.seen = <<>>) <=> (last.entry.Priority < last.thr)
    /\ \A t \in Threads :
         (th[t].pc \in InPipeline /\ th[t].caller = "log"
             /\ Mutated(th[t].call.lg)) =>
            /\ th[t].call.thr
                 = cpLog[th[t].call.lg][Len(cpLog[th[t].call.lg])].p
            /\ th[t].call.entry.Priority >= th[t].call.thr
    /\ \A lg \in DOMAIN cpLog : \A k \in DOMAIN cpLog[lg] :
         \A s \in SinkIds : IsPrefix(cpLog[lg][k].sinks[s], sinks[s])

\* The threshold was raised, then lowered, and an emission met the lowered
\* threshold.
C9_Witness ==
    /\ last.op = "log"
    /\ Len(cpLog[last.lg]) = 2
    /\ cpLog[last.lg][1].p = Err
    /\ cpLog[last.lg][2].p = Debug2
    /\ last.thr = Debug2
    /\ Written(last.eid)

\* C10: in a sequential run every emission of an entry the Validator
\* accepts and json.Marshal serializes, none of whose writes fails, returns
\* nil with its record in the sink; what was written stays written; and a
\* sink holds its records in the order of the calls.
C10_SequentialBothWritten ==
    /\ (/\ last.op = "log"
        /\ Validate(last.entry) = NoErr
        /\ FormatEntry(last.entry).err = NoErr
        /\ ~FailedWrite(last.eid))
       => /\ last.err = NoErr
          /\ acked # <<>>
          /\ acked[Len(acked)] = last.eid
          /\ \E s \in {"primary", "plain"} :
               \E i \in CallsOf(last.eid, s) :
                  /\ sinks[s][i].err = NoErr
                  /\ sinks[s][i].p = FormatEntry(last.entry).bytes
    /\ \A k \in DOMAIN acked : Written(acked[k])
    /\ \A s \in SinkIds : \A i, j \in DOMAIN sinks[s] :
         i < j => sinks[s][i].eid < sinks[s][j].eid

\* A debug record at Info, then ChangePriority(Debug2), then a debug
\* record at Debug2, in this order in one sink.
C10_Witness ==
    /\ Len(cpLog[1]) = 1
    /\ cpLog[1][1].p = Debug2
    /\ \E s \in {"primary", "plain"} :
         /\ Len(sinks[s]) = 2
         /\ Len(cpLog[1][1].sinks[s]) = 1
         /\ \A i \in {1, 2} :
              sinks[s][i].err = NoErr /\ sinks[s][i].p[4] = "Debug"
         /\ sinks[s][1].p[5] = "Info"
         /\ sinks[s][2].p[5] = "Debug2"
    /\ Len(acked) = 2

\* Thread t is inside the pipeline of log, between the filter and the
\* return, on Logger lg.
InLog(t, lg) ==
    th[t].caller = "log" /\ th[t].pc \in InPipeline /\ th[t].call.lg = lg

\* The place of emission e in the order of the lock acquisitions, 0 when
\* it acquired no lock.
LockPos(e) ==
    IF \E k \in DOMAIN lockLog : lockLog[k].eid = e
    THEN CHOOSE k \in DOMAIN lockLog : lockLog[k].eid = e
    ELSE 0

\* C11: of the threads using one Logger at most one is inside its pipeline,
\* and that one holds the Logger's lock; the records of one Logger are in
\* each sink in the order in which their emissions acquired the lock.
C11_EmissionsSerialized ==
    /\ \A lg \in DOMAIN loggers : \A t, u \in Threads :
         InLog(t, lg) /\ InLog(u, lg) => t = u
    /\ \A lg \in DOMAIN loggers : \A t \in Threads :
         InLog(t, lg) => loggers[lg].mu = t /\ LockPos(th[t].call.eid) > 0
    /\ \A s \in SinkIds : \A i, j \in DOMAIN sinks[s] :
         LET a == LockPos(sinks[s][i].eid)
             b == LockPos(sinks[s][j].eid)
         IN  (i < j /\ a > 0 /\ b > 0 /\ lockLog[a].lg = lockLog[b].lg)
                 => a < b

\* Two emissions of one Logger overlapped; the one that was called second
\* took the lock first, and its record is the first in the sink.
C11_Witness ==
    \E s \in SinkIds :
        /\ Len(sinks[s]) = 2
        /\ sinks[s][1].eid > sinks[s][2].eid
        /\ LockPos(sinks[s][1].eid) > 0
        /\ LockPos(sinks[s][1].eid) < LockPos(sinks[s][2].eid)

\* Thread t is inside FallbackWriter.Write, past the Lock.
InFw(t) == th[t].pc \in {"fw_primary", "fw_fallback"}

\* C12: of the callers of FallbackWriter.Write at most one is past the
\* Lock, and it holds fw.mu; a call whose primary write failed has made
\* its fallback write before the next call writes the primary, so the
\* calls come in the same order in both branches.
C12_FailoverWritesSerialized ==
    /\ \A t, u \in Threads : InFw(t) /\ InFw(u) => t = u
    /\ \A t \in Threads : InFw(t) => fwmu = t
    /\ \A i, j \in DOMAIN sinks.primary :
         (i < j /\ sinks.primary[i].err # NoErr)
            => /\ CallsOf(sinks.primary[i].eid, "fallback") # {}
               /\ \A k \in CallsOf(sinks.primary[i].eid, "fallback") :
                    \A m \in CallsOf(sinks.primary[j].eid, "fallback") : k < m

\* Two direct writes overlapped and both fell back; the one called second
\* went first, in the primary and in the fallback.
C12_Witness ==
    /\ Len(sinks.primary) = 2
    /\ Len(sinks.fallback) = 2
    /\ sinks.primary[1].eid > sinks.primary[2].eid
    /\ sinks.fallback[1].eid = sinks.primary[1].eid
    /\ last.op = "fwwrite"

\* The branch or sink whose Write thread t is in, "" when it is in none.
WritingTo(t) ==
    CASE th[t].pc = "write" -> th[t].sink
      [] th[t].pc = "fw_primary" -> "primary"
      [] th[t].pc = "fw_fallback" -> "fallback"
      [] OTHER -> ""

\* C13 as stated: a thread writing to a branch of the FallbackWriter holds
\* fw.mu, and no two threads are writing to the same branch at once.
C13_Original ==
    \A t, u \in Threads :
        /\ WritingTo(t) \in {"primary", "fallback"} => fwmu = t
        /\ (t # u /\ WritingTo(t) \in {"primary", "fallback"})
              => WritingTo(t) # WritingTo(u)

\* C13, the writes alone: no two threads are in Write on one branch.
C13_NoOverlappingWrites ==
    \A t, u \in Threads :
        (t # u /\ WritingTo(t) \in {"primary", "fallback"})
            => WritingTo(t) # WritingTo(u)

\* The call c is an emission that passed the filter and the Validator.
Accepted(c) ==
    c.op = "log" /\ c.seen # <<>> /\ Validate(c.seen[1]) = NoErr

\* C14: when the Write of the Logger's writer returns an error for an
\* accepted entry, log returns that error, and the writer was called once:
\* one Write on a plain sink; one on the primary and one on the fallback
\* of a FallbackWriter, whose error is the fallback's.
C14_WriteErrorPropagated ==
    Accepted(last) =>
        LET pl == CallsOf(last.eid, "plain")
            pr == CallsOf(last.eid, "primary")
            fb == CallsOf(last.eid, "fallback")
        IN  IF OnFailover(last)
            THEN /\ pl = {}
                 /\ Cardinality(pr) <= 1
                 /\ Cardinality(fb) <= 1
                 /\ \A j \in fb :
                      sinks.fallback[j].err # NoErr
                          => last.err = sinks.fallback[j].err
            ELSE /\ pr = {} /\ fb = {}
                 /\ Cardinality(pl) <= 1
                 /\ \A i \in pl :
                      sinks.plain[i].err # NoErr
                          => last.err = sinks.plain[i].err

\* The plain sink refused an accepted record and log returned its error.
C14_Witness ==
    /\ Accepted(last)
    /\ ~OnFailover(last)
    /\ last.err = WriteErr("plain")
    /\ \E i \in CallsOf(last.eid, "plain") : sinks.plain[i].err = last.err

\* The call c is an emission log handed to formatAndWriteEntry: it passed
\* the filter, and the Validator accepted it or the writer is a
\* FallbackWriter.
Serialized(c) ==
    c.op = "log" /\ c.seen # <<>>
        /\ (Validate(c.seen[1]) = NoErr \/ OnFailover(c))

\* C15: when json.Marshal fails for an entry, log returns its error and no
\* sink or branch gets a Write call for the entry, for an accepted entry
\* and for a rejected entry on its way to the fallback branch.
C15_SerializationFailure ==
    (Serialized(last) /\ Marshal(last.seen[1]).err # NoErr) =>
        /\ last.err = Marshal(last.seen[1]).err
        /\ \A s \in SinkIds : CallsOf(last.eid, s) = {}

\* A rejected entry with an unserializable payload, on a Logger whose
\* writer is the FallbackWriter.
C15_Witness ==
    /\ Rejected(last)
    /\ OnFailover(last)
    /\ last.seen[1].Data = Unserializable
    /\ last.err = ErrMarshal

\* The call c is an emission the filter let through.
PassedFilter(c) == c.op = "log" /\ c.thr > 0 /\ c.entry.Priority >= c.thr

\* The sinks the records of the Logger of call c can end in.
Destinations(c) ==
    IF OnFailover(c) THEN {"primary", "fallback"} ELSE {"plain"}

\* Emission c has its whole newline-terminated record in one of its
\* destinations, by a Write that returned no error.
RecordAccepted(c) ==
    /\ c.seen # <<>>
    /\ \E s \in Destinations(c) : \E i \in CallsOf(c.eid, s) :
         /\ sinks[s][i].err = NoErr
         /\ sinks[s][i].p = FormatEntry(c.seen[1]).bytes
         /\ sinks[s][i].n = Len(sinks[s][i].p)
         /\ sinks[s][i].p[Len(sinks[s][i].p)] = "\n"

\* C16: an emission that passed the filter and returned nil has its whole
\* record accepted by a sink; one whose record no sink accepted returned
\* an error.
C16_NoSilentLoss ==
    PassedFilter(last) =>
        /\ last.err = NoErr => RecordAccepted(last)
        /\ ~RecordAccepted(last) => last.err # NoErr

\* The primary refused the record, the fallback accepted it, log returned
\* nil.
C16_Witness ==
    /\ PassedFilter(last)
    /\ last.err = NoErr
    /\ \E i \in CallsOf(last.eid, "primary") : sinks.primary[i].err # NoErr
    /\ RecordAccepted(last)

\* Thread t built its entry (newLogEntry read the threshold of its Logger,
\* with no lock held) after thread u had taken that Logger's lock in
\* ChangePriority and before u set the threshold and returned.
ReadDuringChangePriority(t, u) ==
    /\ th[t].pc = "log"
    /\ th[u].pc = "cp"
    /\ th[t].call.lg = th[u].call.lg
    /\ th[u].call.eid < th[t].call.eid

\* C17 as stated: no thread reads the threshold of a Logger while another
\* thread is inside ChangePriority on that Logger.
C17_Original ==
    \A t, u \in Threads : ~ReadDuringChangePriority(t, u)

\* Thread t holds the lock of Logger lg inside log, at a Write that has
\* not returned.
BlockedInWrite(t, lg) == InLog(t, lg) /\ loggers[lg].mu = t

\* C18: a With* on a Logger takes no lock: whenever a thread can make a
\* call and there is room for another Logger, the derivation from every
\* Logger can be done at once, whoever holds that Logger's lock; and the
\* lock of a Logger is held by a thread inside log or ChangePriority only.
C18_DerivationNeverBlocks ==
    /\ \A t \in Threads : \A src \in DOMAIN loggers :
         (CanStart(t) /\ Len(loggers) < MaxLoggers)
             => ENABLED DeriveFrom(t, src, WithFields)
    /\ \A lg \in DOMAIN loggers :
         loggers[lg].mu # 0 =>
            LET t == loggers[lg].mu
            IN  /\ th[t].call.lg = lg
                /\ th[t].pc \in InPipeline \cup {"cp"}

\* A Logger was derived from a Logger whose lock a thread holds inside an
\* emission that started before and has not returned.
C18_Witness ==
    \E id \in DOMAIN loggers : \E t \in Threads :
        /\ origin[id].src # 0
        /\ BlockedInWrite(t, origin[id].src)
        /\ th[t].call.eid < origin[id].at
        /\ last.op = "with"
        /\ last.lg = id

\* Logger id as its construction made it: the root by NewLogger, a clone
\* by its With* from the source as it then was.
Created(id) ==
    IF origin[id].src = 0
    THEN NewLogger("app", loggers[id].writer, FALSE)
    ELSE With(origin[id].field, origin[id].snap, origin[id].value)

\* C19: every Logger has the context its construction gave it, and as its
\* threshold the one of its construction or, once ChangePriority was
\* called on it, the one its own last ChangePriority set: no operation on
\* another Logger, source or clone, changes it.
C19_LoggersIndependent ==
    \A id \in DOMAIN loggers : \A f \in CopiedFields :
        IF f = "priority" /\ Mutated(id)
        THEN loggers[id].priority = cpLog[id][Len(cpLog[id])].p
        ELSE loggers[id][f] = Created(id)[f]

\* ChangePriority returned on a Logger after a clone was derived from it,
\* and the clone has the threshold of its derivation, another one.
C19_Witness ==
    \E id \in DOMAIN loggers :
        /\ origin[id].src # 0
        /\ last.op = "cp"
        /\ last.lg = origin[id].src
        /\ last.eid > origin[id].at
        /\ ~Mutated(id)
        /\ loggers[id].priority # loggers[origin[id].src].priority
        /\ loggers[id].priority = Created(id).priority

\* C20: when log has returned, no thread is still working on its entry,
\* and the sinks hold for it the Write calls made by its return, no more:
\* every write of an emission is made before the call returns.
C20_EmissionSynchronous ==
    last.op = "log" =>
        /\ \A t \in Threads : th[t].call.eid # last.eid
        /\ WritesFor(last.eid, sinks) = last.writes

\* An emission returned with its two writes (primary, then fallback) made,
\* and a call made after its return is at its own Write.
C20_Witness ==
    /\ last.op = "log"
    /\ last.writes = 2
    /\ WritesFor(last.eid, sinks) = 2
    /\ \E t \in Threads :
         th[t].pc \in InPipeline /\ th[t].call.eid > last.eid

\* C21: serialization renders a priority and an event kind as their
\* canonical names and never as integer ranks: the eight priorities are
\* rendered "Debug2", "Debug1", "Debug0", "Info", "Warn", "Err", "Crit",
\* "Sec", the three kinds "Change", "Activity", "Debug", one name per value,
\* and every other numeric value of either type is rendered "Unknown".
C21_CanonicalNames ==
    (calc.bytes # <<>>) =>
        LET kind == calc.bytes[4]
            prio == calc.bytes[5]
        IN  /\ (calc.lp = Debug2) <=> (prio = "Debug2")
            /\ (calc.lp = Debug1) <=> (prio = "Debug1")
            /\ (calc.lp = Debug0) <=> (prio = "Debug0")
            /\ (calc.lp = Info) <=> (prio = "Info")
            /\ (calc.lp = Warn) <=> (prio = "Warn")
            /\ (calc.lp = Err) <=> (prio = "Err")
            /\ (calc.lp = Crit) <=> (prio = "Crit")
            /\ (calc.lp = Sec) <=> (prio = "Sec")
            /\ (calc.lp \notin {Debug2, Debug1, Debug0, Info, Warn, Err, Crit, Sec})
                  <=> (prio = "Unknown")
            /\ (calc.lt = LogTypeChange) <=> (kind = "Change")
            /\ (calc.lt = LogTypeActivity) <=> (kind = "Activity")
            /\ (calc.lt = LogTypeDebug) <=> (kind = "Debug")
            /\ (calc.lt \notin {LogTypeChange, LogTypeActivity, LogTypeDebug})
                  <=> (kind = "Unknown")
            /\ prio # ToString(calc.lp)
            /\ kind # ToString(calc.lt)

\* An entry of a declared kind and an undeclared priority has been
\* serialized.
C21_Witness ==
    /\ calc.bytes # <<>>
    /\ calc.lt = LogTypeActivity
    /\ calc.lp = Sec + 1
    /\ calc.bytes[5] = "Unknown"

\* The priorities from the least to the most severe.
PriorityOrder == <<Debug2, Debug1, Debug0, Info, Warn, Err, Crit, Sec>>

\* The place of priority p in that order.
RankOf(p) == CHOOSE i \in DOMAIN PriorityOrder : PriorityOrder[i] = p

\* C22: the filter admits an entry exactly when the rank of its priority
\* is at least the rank of the Logger's threshold, under the order Debug2 <
\* Debug1 < Debug0 < Info < Warn < Err < Crit < Sec; the comparison is
\* reflexive, and a threshold of Debug2 admits every priority.
C22_FilterOrder ==
    ((calc.admitted # <<>>) /\ (calc.lp \in Thresholds)) =>
        /\ calc.admitted[1] <=> (RankOf(calc.lp) >= RankOf(calc.thr))
        /\ (calc.lp = calc.thr) => calc.admitted[1]
        /\ (calc.thr = Debug2) => calc.admitted[1]

\* The filter has been asked about an entry whose priority is the
\* threshold, and has admitted it.
C22_Witness ==
    /\ calc.admitted = <<TRUE>>
    /\ calc.lp = Warn
    /\ calc.thr = Warn

\* C29: construction never fails. When the host identity cannot be
\* determined the new Logger's system identity is "unknown", otherwise it
\* is the host name; in both cases its threshold is Info and its actor,
\* module, operation, target and origin fields are empty.
C29_ConstructionDefaults ==
    /\ (loggers = <<>>) => ENABLED Construct
    /\ (loggers # <<>>) =>
          /\ Len(loggers) = 1
          /\ loggers[1].system = (IF calc.hostErr THEN "unknown" ELSE "host")
          /\ loggers[1].appName = "app"
          /\ loggers[1].priority = Info
          /\ loggers[1].who = ""
          /\ loggers[1].module = ""
          /\ loggers[1].op = ""
          /\ loggers[1].whatClass = ""
          /\ loggers[1].whatInstanceId = ""
          /\ loggers[1].remoteIP = ""

\* A Logger has been constructed on a host whose name cannot be read.
C29_Witness ==
    /\ loggers # <<>>
    /\ calc.hostErr
    /\ loggers[1].system = "unknown"
    /\ loggers[1].writer = "fw"

\* C25: when the primary write of a FallbackWriter returns no error, the
\* fallback is not written, and Write returns the primary's count with a
\* nil error.
C25_PrimarySuffices ==
    /\ (last.op = "fwwrite") =>
          \A i \in CallsOf(last.eid, "primary") :
             (sinks.primary[i].err = NoErr) =>
                /\ CallsOf(last.eid, "fallback") = {}
                /\ last.n = sinks.primary[i].n
                /\ last.n = Len(DirectBytes)
                /\ last.err = NoErr
    /\ \A t \in Threads :
          (th[t].pc = "fw_fallback") =>
             \A i \in CallsOf(th[t].call.eid, "primary") :
                sinks.primary[i].err # NoErr

\* A direct Write returned after the primary took the bytes, while an
\* earlier Write had to fall back.
C25_Witness ==
    /\ last.op = "fwwrite"
    /\ \E i \in CallsOf(last.eid, "primary") : sinks.primary[i].err = NoErr
    /\ last.writes = 1
    /\ sinks.fallback # <<>>

\* C24: every emission that is not suppressed goes through the filter,
\* then validation, then serialization and the write: the Validator is
\* called exactly once, with the entry, after the filter admitted it, and
\* no sink is written for the emission before the Validator has returned.
C24_PipelineOrder ==
    /\ (last.op = "log") =>
          /\ PassedFilter(last) =>
                last.seen = <<[last.entry EXCEPT
                                 !.AppName = loggers[last.lg].appName]>>
          /\ (~PassedFilter(last)) => (last.seen = <<>> /\ last.writes = 0)
    /\ \A t \in Threads :
          /\ (th[t].pc = "log") =>
                /\ th[t].call.seen = <<>>
                /\ \A s \in SinkIds : CallsOf(th[t].call.eid, s) = {}
          /\ (th[t].pc \in InPipeline) =>
                /\ PassedFilter(th[t].call)
                /\ Len(th[t].call.seen) = 1
                /\ th[t].p = FormatEntry(th[t].call.seen[1]).bytes
          /\ (th[t].pc \in {"write", "fw_lock"}) =>
                \A s \in SinkIds : CallsOf(th[t].call.eid, s) = {}

\* An emission that passed the filter, was rejected by the Validator once
\* and then written to the fallback has returned.
C24_Witness ==
    /\ PassedFilter(last)
    /\ Rejected(last)
    /\ Len(last.seen) = 1
    /\ last.writes = 1
    /\ Mutated(last.lg)

\* The threshold the Logger of emission c had when c built its entry: the
\* one of its construction, or the one set by the last ChangePriority that
\* had returned by then.
ThresholdAtBuild(c) ==
    IF c.cps = 0 THEN Created(c.lg).priority ELSE cpLog[c.lg][c.cps].p

\* The emission c was dropped by the filter.
Suppressed(c) == c.op = "log" /\ c.seen = <<>>

\* C30: every entry carries as its priority the threshold its Logger had
\* when the entry was built, before the lock is taken. So an emission is
\* suppressed exactly when the threshold the filter reads is higher, which
\* takes a ChangePriority on the same Logger that returned after the entry
\* was built and set that higher threshold; in a run in which no call has
\* overlapped another, no emission is suppressed.
C30_PriorityIsThresholdAtBuild ==
    /\ \A t \in Threads :
          (th[t].call.op = "log") =>
             th[t].call.entry.Priority = ThresholdAtBuild(th[t].call)
    /\ (last.op = "log") =>
          /\ last.entry.Priority = ThresholdAtBuild(last)
          /\ Suppressed(last) <=> (last.thr > ThresholdAtBuild(last))
          /\ Suppressed(last) =>
                \E k \in DOMAIN cpLog[last.lg] :
                   /\ k > last.cps
                   /\ cpLog[last.lg][k].p = last.thr
          /\ (overlaps = 0) => ~Suppressed(last)

\* An entry built after the threshold was lowered to Debug2 was dropped,
\* because the threshold was raised to Err before the filter read it.
C30_Witness ==
    /\ Suppressed(last)
    /\ last.entry.Priority = Debug2
    /\ last.thr = Err
    /\ Len(cpLog[last.lg]) = 2

\* The fields of a Logger's context that newLogEntry copies into an entry.
ContextFields == CopiedFields \ {"writer", "validator"}

\* The emissions the state knows: the one that returned last and those in
\* flight.
KnownEmissions ==
    {c \in {last} \cup {th[t].call : t \in Threads} : c.op = "log"}

\* C26: an entry built by LogDataChange carries the kind Change, one built
\* by LogActivity the kind Activity, one built by LogDebug the kind Debug,
\* and its other ambient fields are those of the emitting Logger's context
\* at the time of the call; a record written for it carries the same.
C26_KindAndContext ==
    \A c \in KnownEmissions :
       /\ (c.via = "LogDataChange") => (c.entry.Type = LogTypeChange)
       /\ (c.via = "LogActivity") => (c.entry.Type = LogTypeActivity)
       /\ (c.via = "LogDebug") => (c.entry.Type = LogTypeDebug)
       /\ c.via \in {"LogDataChange", "LogActivity", "LogDebug"}
       /\ \A f \in ContextFields \ {"priority"} :
             ContextOf(c.entry)[f] = loggers[c.lg][f]
       /\ c.entry.Priority = ThresholdAtBuild(c)
       /\ \A s \in SinkIds :
             \A i \in CallsOf(c.eid, s) :
                /\ sinks[s][i].p[4] =
                      (CASE c.via = "LogDataChange" -> "Change"
                         [] c.via = "LogActivity" -> "Activity"
                         [] c.via = "LogDebug" -> "Debug")
                /\ \A f \in ContextFields :
                      ContextOfRecord(sinks[s][i].p)[f]
                          = Rendered(f, ContextOf(c.entry)[f])

\* A change record was written through a clone that has an actor and whose
\* threshold was changed after its creation.
C26_Witness ==
    /\ last.op = "log"
    /\ last.via = "LogDataChange"
    /\ loggers[last.lg].who = "x"
    /\ Mutated(last.lg)
    /\ last.entry.Priority = Debug2
    /\ \E s \in SinkIds :
          \E i \in CallsOf(last.eid, s) :
             sinks[s][i].p[4] = "Change" /\ sinks[s][i].p[7] = "x"

\* The Logger through which emission e was made, 0 when log has not taken
\* the lock for e.
EmitterOf(e) ==
    IF \E k \in DOMAIN lockLog : lockLog[k].eid = e
    THEN lockLog[CHOOSE k \in DOMAIN lockLog : lockLog[k].eid = e].lg
    ELSE 0

\* C27: every record that reaches a sink carries the application name of
\* the Logger that emitted it, and every Logger derived from a root, in one
\* step or in several, has the root's application name and system
\* identity.
C27_ApplicationName ==
    /\ \A id \in DOMAIN loggers :
          /\ loggers[id].appName = loggers[1].appName
          /\ loggers[id].system = loggers[1].system
          /\ (origin[id].src # 0) =>
                /\ loggers[id].appName = origin[id].snap.appName
                /\ loggers[id].system = origin[id].snap.system
    /\ \A s \in SinkIds :
          \A i \in DOMAIN sinks[s] :
             (EmitterOf(sinks[s][i].eid) # 0) =>
                sinks[s][i].p[1] = loggers[EmitterOf(sinks[s][i].eid)].appName
    /\ \A c \in KnownEmissions : c.entry.AppName = loggers[c.lg].appName

\* A record was written through the clone of a clone of the root.
C27_Witness ==
    /\ last.op = "log"
    /\ origin[last.lg].src > 1
    /\ \E s \in SinkIds :
          \E i \in CallsOf(last.eid, s) :
             /\ sinks[s][i].err = NoErr
             /\ sinks[s][i].p[1] = "app"
             /\ sinks[s][i].p[2] = "host"

\* C28: two different Loggers, also when one is derived from the other,
\* share no lock: an emission waiting to enter log goes on exactly when the
\* lock of its own Logger is free, whoever holds the lock of another one,
\* and each thread inside log holds the lock of its own Logger only. So two
\* emissions on two Loggers that share a sink other than a FallbackWriter
\* can be in its Write at the same time.
C28_NoSharedLock ==
    /\ \A t \in Threads :
          (th[t].pc = "log") =>
             (ENABLED Log(t) <=> (loggers[th[t].call.lg].mu = 0))
    /\ \A t \in Threads : \A lg \in DOMAIN loggers :
          (loggers[lg].mu = t) => (th[t].call.lg = lg)

\* Two threads are in the Write of the same plain sink, one through a
\* Logger and the other through a clone of it.
C28_Witness ==
    \E t, u \in Threads :
        /\ t # u
        /\ th[t].pc = "write"
        /\ th[u].pc = "write"
        /\ th[t].sink = "plain"
        /\ th[u].sink = "plain"
        /\ origin[th[u].call.lg].src = th[t].call.lg
        /\ loggers[th[t].call.lg].mu = t
        /\ loggers[th[u].call.lg].mu = u

\* C23: provided every sink write and every Validator call returns, every
\* emission call and every ChangePriority call eventually returns under a
\* fair scheduler, whatever the number of threads and of Loggers sharing a
\* FallbackWriter: the Logger locks and the FallbackWriter lock never
\* deadlock.
C23_CallsReturn ==
    \A t \in Threads : (th[t].pc # "idle") ~> (th[t].pc = "idle")

\* One thread is in the primary write of the FallbackWriter, holding its
\* lock and the lock of its Logger, while the other, inside log on a clone,
\* holds the clone's lock and waits for the FallbackWriter's.
C23_Witness ==
    \E t, u \in Threads :
        /\ th[t].pc = "fw_primary"
        /\ fwmu = t
        /\ loggers[th[t].call.lg].mu = t
        /\ th[u].pc = "fw_lock"
        /\ loggers[th[u].call.lg].mu = u
        /\ th[u].call.lg # th[t].call.lg
        /\ ~ENABLED FwLock(u)

\* C31: the FallbackWriter keeps no memory of past failures: every Write
\* attempts the primary first, whatever earlier writes returned, so once
\* the primary works again the next Write goes to the primary and not to
\* the fallback.
C31_PrimaryFirstAlways ==
    /\ \A i \in DOMAIN sinks.fallback :
          \E j \in CallsOf(sinks.fallback[i].eid, "primary") :
             sinks.primary[j].err # NoErr
    /\ (last.op = "fwwrite") =>
          /\ Cardinality(CallsOf(last.eid, "primary")) = 1
          /\ \A j \in CallsOf(last.eid, "primary") :
                (sinks.primary[j].err = NoErr)
                    <=> (CallsOf(last.eid, "fallback") = {})
    /\ \A t \in Threads :
          /\ (th[t].pc = "fw_primary") =>
                /\ CallsOf(th[t].call.eid, "primary") = {}
                /\ CallsOf(th[t].call.eid, "fallback") = {}
          /\ (th[t].pc = "fw_fallback") =>
                /\ Cardinality(CallsOf(th[t].call.eid, "primary")) = 1
                /\ CallsOf(th[t].call.eid, "fallback") = {}

\* After a Write whose primary failed and whose fallback took the bytes,
\* the next Write was taken by the primary and left the fallback alone.
C31_Witness ==
    /\ last.op = "fwwrite"
    /\ Len(sinks.primary) = 2
    /\ sinks.primary[1].err # NoErr
    /\ sinks.primary[2].err = NoErr
    /\ sinks.primary[2].eid = last.eid
    /\ sinks.primary[1].eid < last.eid
    /\ Len(sinks.fallback) = 1
    /\ sinks.fallback[1].eid = sinks.primary[1].eid

\* The emission c returned on the path named: dropped by the filter,
\* refused with the Validator's error, rejected and sent to the fallback,
\* not serializable, refused by the sinks, or written.
ReturnPath(c) ==
    CASE Suppressed(c) -> "suppressed"
      [] c.err = ErrValidation -> "validation error"
      [] Rejected(c) /\ c.writes > 0 -> "rejected, fallback write"
      [] c.err = ErrMarshal -> "serialization error"
      [] c.err # NoErr -> "write error"
      [] OTHER -> "success"

\* C32: the lock of a Logger is free after every return of log and of
\* ChangePriority, whatever the path of the return, and the lock of the
\* FallbackWriter is free after every return of its Write, whether the
\* primary or the fallback took the bytes or both failed: a lock is held
\* only by a thread that is inside the call that took it.
C32_LocksReleased ==
    /\ \A lg \in DOMAIN loggers :
          (loggers[lg].mu # 0) =>
              /\ loggers[lg].mu \in Threads
              /\ th[loggers[lg].mu].call.lg = lg
              /\ th[loggers[lg].mu].call.op \in {"log", "cp"}
              /\ th[loggers[lg].mu].pc # "idle"
    /\ (fwmu # 0) =>
          /\ fwmu \in Threads
          /\ th[fwmu].pc \in {"fw_primary", "fw_fallback"}
    /\ (last.op \in {"log", "cp"}) =>
          \/ loggers[last.lg].mu = 0
          \/ th[loggers[last.lg].mu].call.eid # last.eid
    /\ (\A t \in Threads : th[t].pc = "idle") =>
          /\ fwmu = 0
          /\ \A lg \in DOMAIN loggers : loggers[lg].mu = 0

\* An emission returned the fallback's error after the primary and the
\* fallback both refused its record, and every lock is free.
C32_Witness ==
    /\ last.op = "log"
    /\ ReturnPath(last) = "write error"
    /\ last.writes = 2
    /\ last.err = WriteErr("fallback")
    /\ loggers[last.lg].mu = 0
    /\ fwmu = 0
    /\ \A t \in Threads : th[t].pc = "idle"

\* C33: the entry the Validator inspects is field for field the entry that
\* is serialized and written: between the validation and the write of an
\* emission the Logger changes no field of the entry, and the overwrite of
\* the application name happens before both.
C33_ValidatedIsWritten ==
    /\ \A c \in KnownEmissions :
          (c.seen # <<>>) =>
              /\ c.seen[1].AppName = loggers[c.lg].appName
              /\ c.seen[1] = [c.entry EXCEPT !.AppName = loggers[c.lg].appName]
              /\ \A s \in SinkIds :
                    \A i \in CallsOf(c.eid, s) :
                       sinks[s][i].p = FormatEntry(c.seen[1]).bytes
    /\ \A t \in Threads :
          (th[t].pc \in InPipeline /\ th[t].caller = "log") =>
              /\ th[t].entry = th[t].call.seen[1]
              /\ th[t].p = Append(Marshal(th[t].call.seen[1]).bytes, "\n")

\* An entry the Validator accepted was refused by the primary and taken by
\* the fallback: both were handed the record of the entry as validated.
C33_Witness ==
    /\ last.op = "log"
    /\ last.seen # <<>>
    /\ Validate(last.seen[1]) = NoErr
    /\ last.writes = 2
    /\ \E i \in CallsOf(last.eid, "primary") :
          /\ sinks.primary[i].err # NoErr
          /\ sinks.primary[i].p = FormatEntry(last.seen[1]).bytes
    /\ \E i \in CallsOf(last.eid, "fallback") :
          /\ sinks.fallback[i].err = NoErr
          /\ sinks.fallback[i].p = FormatEntry(last.seen[1]).bytes

====
